---------------------------- MODULE Spec2Model ----------------------------
(***************************************************************************)
(* Model of if_gen.py: the hierarchy-resolution and signal-flattening      *)
(* engine of the SystemVerilog assertion-interface generator.              *)
(*                                                                         *)
(* The state is that of one run of main() after the module records have    *)
(* been parsed and find_instances has filled every instance list:          *)
(* find_top_module, then process_spy_signals (the recursive get_all_ports  *)
(* and get_all_registers, run as an explicit call stack, followed by       *)
(* resolve_port_conflicts and resolve_conflicts).                          *)
(*                                                                         *)
(* Python strings that the code slices, counts or rewrites (declaration    *)
(* names, instance aliases, paths) are sequences of one-character strings; *)
(* the backquote of `PATH_TOP, which a TLA+ string cannot hold, is the     *)
(* single element "grave".  Module names are only compared and sorted and  *)
(* stay TLA+ strings.                                                      *)
(***************************************************************************)
EXTENDS Integers, Sequences, FiniteSets, TLC

VARIABLES
    module_infos,     \* main: the list of ModuleInfo objects
    top_module_name,  \* config.top_module_name
    mode,             \* args.mode
    pc,               \* position in main / process_spy_signals
    top_module,       \* main: top_module (None before find_top_module)
    stack,            \* active calls of get_all_ports / get_all_registers
    flat,             \* value returned by the outermost get_all_* call
    port_list,        \* process_spy_signals: resolved ports (None if not built)
    reg_list,         \* process_spy_signals: resolved registers
    spy_signals,      \* main: spy_signals
    ports_count,      \* main: ports_count
    error,            \* why the run stopped early ("" if it did not)
    exit_code,        \* process exit status (-1 while running)
    prev_run          \* outcome of the previous run over the same module records

vars == <<module_infos, top_module_name, mode, pc, top_module, stack, flat,
          port_list, reg_list, spy_signals, ports_count, error, exit_code,
          prev_run>>

---------------------------------------------------------------------------
(* Bounds of the model *)

\* Total number of instance edges in the registry.
MaxEdges == 2

\* Depth of the call stack at which the interpreter raises RecursionError.
MaxDepth == 4

---------------------------------------------------------------------------
(* Strings *)

\* "`PATH_TOP", the path process_spy_signals starts from.
PATH_TOP == <<"grave", "P", "A", "T", "H", "_", "T", "O", "P">>

\* sig[1][10:] : the slice that drops "`PATH_TOP."
PathTopSlice == 10

Dot == "."

\* f"{path}.{name}"
JoinPath(path, name) == path \o <<Dot>> \o name

\* s[n:]
SliceFrom(s, n) == IF n >= Len(s) THEN <<>> ELSE SubSeq(s, n + 1, Len(s))

\* s.replace('.', '_')
ReplaceDots(s) == [i \in 1..Len(s) |-> IF s[i] = Dot THEN "_" ELSE s[i]]

\* s.count('.')
CountDots(s) == Cardinality({i \in 1..Len(s) : s[i] = Dot})

\* Python's None (for a module, a list, a direction)
None == [none |-> TRUE]

\* a list-valued variable that has been assigned holds Some(list), so that
\* it can be told from None
Some(list) == [value |-> list]

\* Code-point order of the module names used as sort keys.
ModuleNames == <<"A", "B", "C">>

NameRank(n) == CHOOSE i \in 1..Len(ModuleNames) : ModuleNames[i] = n

\* a <= b on module names
NameLeq(a, b) == NameRank(a) <= NameRank(b)

---------------------------------------------------------------------------
(* Generic list helpers *)

RECURSIVE InsertSorted_BeforeEqual(_, _)
\* mutant: x goes before the elements of equal key (the sort is not stable)
InsertSorted_BeforeEqual(sorted, x) ==
    IF sorted = <<>> THEN <<x>>
    ELSE IF NameRank(sorted[1][3]) < NameRank(x[3])
         THEN <<sorted[1]>> \o InsertSorted_BeforeEqual(Tail(sorted), x)
         ELSE <<x>> \o sorted

RECURSIVE InsertSorted(_, _)
\* insert x after every element whose key is <= x's key (keeps the sort stable)
InsertSorted(sorted, x) ==
    IF sorted = <<>> THEN <<x>>
    ELSE IF NameLeq(sorted[1][3], x[3])
         THEN <<sorted[1]>> \o InsertSorted(Tail(sorted), x)
         ELSE <<x>> \o sorted

RECURSIVE SortedByModule(_)
\* sorted(l, key=lambda x: x[2]) : stable sort on the owner module name
SortedByModule(l) ==
    IF l = <<>> THEN <<>>
    ELSE InsertSorted(SortedByModule(SubSeq(l, 1, Len(l) - 1)), l[Len(l)])

---------------------------------------------------------------------------
(* find_top_module *)

\* mutant: only instances inside other modules count
is_instantiated_OtherOnly(module_name, infos) ==
    \E m \in 1..Len(infos) :
        /\ infos[m].module_name # module_name
        /\ \E k \in 1..Len(infos[m].instances) :
              infos[m].instances[k][1] = module_name

\* is_instantiated(module_name, module_infos)
is_instantiated(module_name, infos) ==
    \E m \in 1..Len(infos) :
        \E k \in 1..Len(infos[m].instances) :
            infos[m].instances[k][1] = module_name

\* mutant: the override name is never looked up
OverrideLookup_Ignored(infos, name) == None

\* lines 179-182: the loop has no break, the last module of that name wins
OverrideLookup(infos, name) ==
    IF name = "" THEN None
    ELSE LET hits == {i \in 1..Len(infos) : infos[i].module_name = name}
         IN IF hits = {} THEN None
            ELSE infos[CHOOSE i \in hits : \A j \in hits : j <= i]

\* lines 189-192: potential_tops, in registry order
PotentialTops(infos) ==
    SelectSeq(infos, LAMBDA module :
        /\ Len(module.instances) # 0
        /\ ~is_instantiated(module.module_name, infos))

\* mutant: no special case for a registry of one module
InferTop_NoSingle(infos) ==
    LET potential_tops == PotentialTops(infos)
    IN IF Len(potential_tops) = 0
       THEN [exit |-> TRUE, error |-> "TopModuleNotFound"]
       ELSE IF Len(potential_tops) = 1
       THEN [exit |-> FALSE, module |-> potential_tops[1]]
       ELSE [exit |-> TRUE, error |-> "AmbiguousTopModule"]

\* mutant: several potential tops are settled by taking the first
InferTop_FirstCandidate(infos) ==
    IF Len(infos) = 1 THEN [exit |-> FALSE, module |-> infos[1]]
    ELSE LET potential_tops == PotentialTops(infos)
         IN IF Len(potential_tops) = 0
            THEN [exit |-> TRUE, error |-> "TopModuleNotFound"]
            ELSE [exit |-> FALSE, module |-> potential_tops[1]]

\* lines 184-200, entered when the override did not resolve
InferTop(infos) ==
    IF Len(infos) = 1 THEN [exit |-> FALSE, module |-> infos[1]]
    ELSE LET potential_tops == PotentialTops(infos)
         IN IF Len(potential_tops) = 0
            THEN [exit |-> TRUE, error |-> "TopModuleNotFound"]
            ELSE IF Len(potential_tops) = 1
            THEN [exit |-> FALSE, module |-> potential_tops[1]]
            ELSE [exit |-> TRUE, error |-> "AmbiguousTopModule"]

find_top_module(infos, name) ==
    LET top == OverrideLookup(infos, name)
    IN IF top # None THEN [exit |-> FALSE, module |-> top]
       ELSE InferTop(infos)

\* get_module_info(module_name, module_infos): first match, or None
get_module_info(module_name, infos) ==
    LET hits == {i \in 1..Len(infos) : infos[i].module_name = module_name}
    IN IF hits = {} THEN None
       ELSE infos[CHOOSE i \in hits : \A j \in hits : i <= j]

---------------------------------------------------------------------------
(* get_all_registers / get_all_ports: one frame per active call *)

GET_REGS == "get_all_registers"
GET_PORTS == "get_all_ports"

\* module.regs_matches (get_all_registers) or module.port_matches (get_all_ports)
OwnDecls(fn, module) ==
    IF fn = GET_REGS THEN module.regs_matches ELSE module.port_matches

\* lines 293-297 / 321-324: the records of the module's own declarations
OwnSignals(fn, module, path) ==
    LET decls == OwnDecls(fn, module)
    IN [i \in 1..Len(decls) |->
            <<decls[i], JoinPath(path, decls[i].name), module.module_name>>]

\* mutant: the alias is not appended to the path
ChildPath_NoAlias(path, inst) == path

\* f"{path}.{inst[1]}" : the path handed to the recursive call
ChildPath(path, inst) == JoinPath(path, inst[2])

\* a call that has appended its own declarations and is about to visit
\* module.instances[next]
NewFrame(fn, module, path) ==
    [fn |-> fn, module |-> module, path |-> path,
     spy_signals |-> OwnSignals(fn, module, path), next |-> 1]

\* the module names on the active expansion path, outermost call first
ActivePath == [i \in 1..Len(stack) |-> stack[i].module.module_name]

---------------------------------------------------------------------------
(* resolve_conflicts / resolve_port_conflicts *)

\* sig[1][10:].replace('.', '_')
DerivedName(path) == ReplaceDots(SliceFrom(path, PathTopSlice))

SigName(sig) == sig[1].name

\* Counter(reg_names)[name]
NameCount(signals, name) ==
    Cardinality({i \in 1..Len(signals) : SigName(signals[i]) = name})

\* mutant: a name is a duplicate only from its third occurrence on
ResolveOne_OverTwo(signals, sig) ==
    IF NameCount(signals, SigName(sig)) > 2
    THEN <<[direction |-> None, type |-> sig[1].type, width |-> sig[1].width,
            name |-> DerivedName(sig[2])], sig[2], sig[3]>>
    ELSE sig

\* lines 534-543: one record of resolve_conflicts' result
ResolveOne(signals, sig) ==
    IF NameCount(signals, SigName(sig)) > 1
    THEN <<[direction |-> None, type |-> sig[1].type, width |-> sig[1].width,
            name |-> DerivedName(sig[2])], sig[2], sig[3]>>
    ELSE sig

resolve_conflicts(signals) ==
    SortedByModule([i \in 1..Len(signals) |-> ResolveOne(signals, signals[i])])

RECURSIVE Flatten(_)
\* concatenation of a list of lists
Flatten(ll) == IF ll = <<>> THEN <<>> ELSE ll[1] \o Flatten(Tail(ll))

\* lines 561-566: the keys of port_groups, in insertion order
GroupNames(signals) ==
    LET first == {i \in 1..Len(signals) :
                    \A j \in 1..(i - 1) : SigName(signals[j]) # SigName(signals[i])}
        idx == SelectSeq([i \in 1..Len(signals) |-> i], LAMBDA i : i \in first)
    IN [k \in 1..Len(idx) |-> SigName(signals[idx[k]])]

\* port_groups[port_name]
PortGroup(signals, port_name) ==
    SelectSeq(signals, LAMBDA sig : SigName(sig) = port_name)

\* lines 587-593: an output port renamed after its path
RenamedPort(port) ==
    <<[direction |-> port[1].direction, type |-> port[1].type,
       width |-> port[1].width, name |-> DerivedName(port[2])], port[2], port[3]>>

\* mutant: the first port of maximal path length
ShortestPort_Longest(ports) ==
    ports[CHOOSE i \in 1..Len(ports) :
            /\ \A j \in 1..Len(ports) : Len(ports[i][2]) >= Len(ports[j][2])
            /\ \A j \in 1..(i - 1) : Len(ports[j][2]) < Len(ports[i][2])]

\* min(ports, key=lambda x: len(x[1])) : the first port of minimal path length
ShortestPort(ports) ==
    ports[CHOOSE i \in 1..Len(ports) :
            /\ \A j \in 1..Len(ports) : Len(ports[i][2]) <= Len(ports[j][2])
            /\ \A j \in 1..(i - 1) : Len(ports[j][2]) > Len(ports[i][2])]

\* mutant: a port that is alone in its group is kept whatever its depth
GroupResult_KeepSingleton(ports) ==
    IF Len(ports) = 1
    THEN <<ports[1]>>
    ELSE LET output_ports == SelectSeq(ports, LAMBDA p : p[1].direction = "output")
         IN IF output_ports # <<>>
            THEN LET kept == SelectSeq(output_ports, LAMBDA p : CountDots(p[2]) > 1)
                 IN [i \in 1..Len(kept) |-> RenamedPort(kept[i])]
            ELSE LET shortest_port == ShortestPort(ports)
                 IN IF CountDots(shortest_port[2]) > 1
                    THEN <<shortest_port>> ELSE <<>>

\* lines 572-599: what one group of equally named ports adds to the result
GroupResult(ports) ==
    IF Len(ports) = 1
    THEN IF CountDots(ports[1][2]) > 1 THEN <<ports[1]>> ELSE <<>>
    ELSE LET output_ports == SelectSeq(ports, LAMBDA p : p[1].direction = "output")
         IN IF output_ports # <<>>
            THEN LET kept == SelectSeq(output_ports, LAMBDA p : CountDots(p[2]) > 1)
                 IN [i \in 1..Len(kept) |-> RenamedPort(kept[i])]
            ELSE LET shortest_port == ShortestPort(ports)
                 IN IF CountDots(shortest_port[2]) > 1
                    THEN <<shortest_port>> ELSE <<>>

resolve_port_conflicts(signals) ==
    LET names == GroupNames(signals)
    IN SortedByModule(Flatten([k \in 1..Len(names) |->
                                  GroupResult(PortGroup(signals, names[k]))]))

---------------------------------------------------------------------------
(* The module records main() hands to find_top_module *)

Modes == {"ports", "registers", "both"}

\* declaration names (\w+ ending in the register suffix "_s") and aliases
q_s == <<"q", "_", "s">>
u_q_s == <<"u", "_", "q", "_", "s">>
u == <<"u">>
v == <<"v">>

\* a regs_pattern match: the groups type, width and name
Reg(name) == [type |-> "logic", width |-> None, name |-> name]

\* a port_pattern match: the groups direction, type, width and name
Port(direction, name) ==
    [direction |-> direction, type |-> "logic", width |-> None, name |-> name]

ModuleInfo(name, instances, regs, ports) ==
    [module_name |-> name, instances |-> instances,
     regs_matches |-> regs, port_matches |-> ports]

SeqsUpTo(S, n) == UNION {[1..k -> S] : k \in 0..n}

RECURSIVE InstanceLists(_, _, _)
\* every way to give the modules of `names` instance lists of at most `budget`
\* edges in all, each edge (child module name, alias) as find_instances
\* records it: the child is a module of the registry
InstanceLists(names, edges, budget) ==
    IF names = {} THEN {<<>>}
    ELSE LET n == CHOOSE x \in names : TRUE
         IN UNION {{(n :> l) @@ rest :
                        rest \in InstanceLists(names \ {n}, edges, budget - Len(l))} :
                   l \in SeqsUpTo(edges, budget)}

\* the names of `names` in sort order
OrderedNames(names) == SelectSeq(ModuleNames, LAMBDA n : n \in names)

\* the registries over the modules `names`, listed in name order; decls[n]
\* is the set of <<regs_matches, port_matches>> pairs module n may have
Registries(names, aliases, decls) ==
    LET ordered == OrderedNames(names)
    IN {[i \in 1..Len(ordered) |->
            ModuleInfo(ordered[i], inst[ordered[i]],
                       d[ordered[i]][1], d[ordered[i]][2])] :
        inst \in InstanceLists(names, names \X aliases, MaxEdges),
        d \in {f \in [names -> UNION {decls[n] : n \in names}] :
                 \A n \in names : f[n] \in decls[n]}}

\* module records whose instance lists were filled by find_instances from a
\* module_names list `targets` that need not be the names of the registry
RegistriesOver(names, targets, aliases, decls) ==
    LET ordered == OrderedNames(names)
    IN {[i \in 1..Len(ordered) |->
            ModuleInfo(ordered[i], inst[ordered[i]],
                       d[ordered[i]][1], d[ordered[i]][2])] :
        inst \in InstanceLists(names, targets \X aliases, MaxEdges),
        d \in {f \in [names -> UNION {decls[n] : n \in names}] :
                 \A n \in names : f[n] \in decls[n]}}

\* the same module records in every other list order
OtherOrders(infos) ==
    {[i \in 1..Len(infos) |-> infos[p[i]]] :
        p \in {f \in [1..Len(infos) -> 1..Len(infos)] :
                 /\ \A i, j \in 1..Len(infos) : i # j => f[i] # f[j]
                 /\ \E i \in 1..Len(infos) : f[i] # i}}

\* what a finished run hands to the renderer, or how it failed
Outcome ==
    [error |-> error, exit_code |-> exit_code, top_module |-> top_module,
     spy_signals |-> spy_signals, ports_count |-> ports_count]

StartOfMain ==
    /\ pc = "find_top_module"
    /\ top_module = None
    /\ stack = <<>>
    /\ flat = None
    /\ port_list = None
    /\ reg_list = None
    /\ spy_signals = <<>>
    /\ ports_count = 0
    /\ error = ""
    /\ exit_code = -1

\* declaration lists: none; one register and one input port of the same
\* name; two of each, the second named like the path-derived name of a q_s
\* below an instance u
NoDecls == <<<<>>, <<>>>>
OneDecl == <<<<Reg(q_s)>>, <<Port("input", q_s)>>>>
TwoDecls == <<<<Reg(q_s), Reg(u_q_s)>>, <<Port("output", q_s), Port("input", u_q_s)>>>>

\* registries that vary the instance graph of one to three modules
InitTop ==
    /\ \E names \in SUBSET {"A", "B", "C"} \ {{}} :
          module_infos \in Registries(names, {u},
                                      [n \in names |-> IF n = "B" THEN {TwoDecls}
                                                       ELSE {OneDecl}])
    /\ top_module_name \in {"", "A", "B"}
    /\ mode \in Modes
    /\ StartOfMain
    /\ prev_run = None

\* registries of three modules that vary the aliases and the declarations
Init ==
    /\ module_infos \in Registries({"A", "B", "C"}, {u, v},
                                   [n \in {"A", "B", "C"} |->
                                       IF n = "C" THEN {OneDecl}
                                       ELSE {NoDecls, OneDecl, TwoDecls}])
    /\ top_module_name \in {"", "B"}
    /\ mode \in Modes
    /\ StartOfMain
    /\ prev_run = None

\* find_top_module and process_spy_signals applied to two module records
\* whose instance lists may name a third module that is not in the list
InitEdges ==
    /\ module_infos \in RegistriesOver({"A", "B"}, {"A", "B", "C"}, {u, v},
                                       [n \in {"A", "B"} |->
                                           {NoDecls, OneDecl, TwoDecls}])
    /\ top_module_name \in {"", "B"}
    /\ mode \in Modes
    /\ StartOfMain
    /\ prev_run = None

---------------------------------------------------------------------------
(* main *)

\* an uncaught exception, or exit(1): the run ends with status 1
Abort(why) ==
    /\ pc' = "exit"
    /\ error' = why
    /\ exit_code' = 1
    /\ stack' = <<>>

\* main, line 757
FindTopModule ==
    /\ pc = "find_top_module"
    /\ LET r == find_top_module(module_infos, top_module_name)
       IN IF r.exit
          THEN /\ Abort(r.error)
               /\ UNCHANGED top_module
          ELSE /\ top_module' = r.module
               /\ pc' = "process_spy_signals"
               /\ UNCHANGED <<stack, error, exit_code>>
    /\ UNCHANGED <<module_infos, top_module_name, mode, flat, port_list,
                   reg_list, spy_signals, ports_count, prev_run>>

\* process_spy_signals: the outermost get_all_ports / get_all_registers call
\* (lines 640, 642, 644, 645)
StartFlatten ==
    /\ pc \in {"process_spy_signals", "ports_resolved"}
    /\ LET fn == IF pc = "process_spy_signals" /\ mode # "registers"
                 THEN GET_PORTS ELSE GET_REGS
       IN /\ stack' = <<NewFrame(fn, top_module, PATH_TOP)>>
          /\ pc' = fn
    /\ flat' = None
    /\ UNCHANGED <<module_infos, top_module_name, mode, top_module, port_list,
                   reg_list, spy_signals, ports_count, error, exit_code, prev_run>>

\* lines 300-302 / 326-328: the recursive call for the next instance
Call ==
    /\ stack # <<>>
    /\ LET f == stack[Len(stack)]
       IN /\ f.next <= Len(f.module.instances)
          /\ LET inst == f.module.instances[f.next]
                 inst_module == get_module_info(inst[1], module_infos)
             IN IF inst_module = None
                THEN \* None.regs_matches / None.port_matches
                     Abort("AttributeError")
                ELSE IF Len(stack) >= MaxDepth
                THEN Abort("RecursionError")
                ELSE /\ stack' = Append(stack,
                            NewFrame(f.fn, inst_module, ChildPath(f.path, inst)))
                     /\ UNCHANGED <<pc, error, exit_code>>
    /\ UNCHANGED <<module_infos, top_module_name, mode, top_module, flat,
                   port_list, reg_list, spy_signals, ports_count, prev_run>>

\* lines 304-307 / 330-333: sort, return, and the caller's extend
Return ==
    /\ stack # <<>>
    /\ LET f == stack[Len(stack)]
           result == SortedByModule(f.spy_signals)
           n == Len(stack)
       IN /\ f.next > Len(f.module.instances)
          /\ IF n = 1
             THEN /\ flat' = Some(result)
                  /\ stack' = <<>>
             ELSE /\ stack' = [SubSeq(stack, 1, n - 1) EXCEPT
                                 ![n - 1].spy_signals = @ \o result,
                                 ![n - 1].next = @ + 1]
                  /\ UNCHANGED flat
    /\ UNCHANGED <<module_infos, top_module_name, mode, pc, top_module,
                   port_list, reg_list, spy_signals, ports_count, error,
                   exit_code, prev_run>>

\* process_spy_signals, lines 642 and 644, and for "ports" the return to main
ResolvePortConflicts ==
    /\ pc = GET_PORTS
    /\ stack = <<>>
    /\ port_list' = Some(resolve_port_conflicts(flat.value))
    /\ IF mode = "ports"
       THEN /\ spy_signals' = port_list'.value
            /\ ports_count' = 0
            /\ pc' = "done"
            /\ exit_code' = 0
       ELSE /\ pc' = "ports_resolved"
            /\ UNCHANGED <<spy_signals, ports_count, exit_code>>
    /\ UNCHANGED <<module_infos, top_module_name, mode, top_module, stack,
                   flat, reg_list, error, prev_run>>

\* process_spy_signals, lines 640 and 645-650, and the return to main
ResolveConflicts ==
    /\ pc = GET_REGS
    /\ stack = <<>>
    /\ reg_list' = Some(resolve_conflicts(flat.value))
    /\ IF mode = "registers"
       THEN /\ spy_signals' = reg_list'.value
            /\ ports_count' = 0
       ELSE /\ spy_signals' = port_list.value \o reg_list'.value
            /\ ports_count' = Len(port_list.value)
    /\ pc' = "done"
    /\ exit_code' = 0
    /\ UNCHANGED <<module_infos, top_module_name, mode, top_module, stack,
                   flat, port_list, error, prev_run>>

\* the tool is run again on the same module records, which the file walk
\* now yields in another order
Rerun ==
    /\ pc \in {"done", "exit"}
    /\ prev_run = None
    /\ module_infos' \in OtherOrders(module_infos)
    /\ prev_run' = Outcome
    /\ pc' = "find_top_module"
    /\ top_module' = None
    /\ stack' = <<>>
    /\ flat' = None
    /\ port_list' = None
    /\ reg_list' = None
    /\ spy_signals' = <<>>
    /\ ports_count' = 0
    /\ error' = ""
    /\ exit_code' = -1
    /\ UNCHANGED <<top_module_name, mode>>

\* one run of main
Next ==
    \/ FindTopModule
    \/ StartFlatten
    \/ Call
    \/ Return
    \/ ResolvePortConflicts
    \/ ResolveConflicts

\* runs of main over the same module records in two list orders
NextTop ==
    \/ Next
    \/ Rerun

Spec == Init /\ [][Next]_vars

SpecTop == InitTop /\ [][NextTop]_vars

SpecEdges == InitEdges /\ [][Next]_vars

---------------------------------------------------------------------------
(* Vocabulary of the properties *)

\* the override name is supplied and names a module of the registry
OverrideResolves ==
    /\ top_module_name # ""
    /\ \E i \in 1..Len(module_infos) :
          module_infos[i].module_name = top_module_name

\* the modules with at least one outgoing instance edge that no instance
\* edge of the registry targets
Candidates ==
    {i \in 1..Len(module_infos) :
        /\ module_infos[i].instances # <<>>
        /\ \A j \in 1..Len(module_infos) :
              \A k \in 1..Len(module_infos[j].instances) :
                  module_infos[j].instances[k][1] # module_infos[i].module_name}

TopErrors == {"TopModuleNotFound", "AmbiguousTopModule"}

\* find_top_module has run in this run of main
TopResolved == pc # "find_top_module"

\* no flattening or conflict-resolution step has produced anything
NothingFlattened ==
    /\ stack = <<>>
    /\ flat = None
    /\ port_list = None
    /\ reg_list = None
    /\ spy_signals = <<>>
    /\ ports_count = 0

---------------------------------------------------------------------------
(* C1 - C4: find_top_module *)

C2_OverrideWins ==
    (TopResolved /\ OverrideResolves) =>
        /\ error \notin TopErrors
        /\ top_module # None
        /\ top_module.module_name = top_module_name
        /\ \E i \in 1..Len(module_infos) : module_infos[i] = top_module

\* C2 witness: the override module was returned although it has no
\* instances, is instantiated elsewhere, and several other modules are
\* potential tops.
C2_Witness ==
    /\ pc = "process_spy_signals"
    /\ OverrideResolves
    /\ top_module.module_name = top_module_name
    /\ top_module.instances = <<>>
    /\ is_instantiated(top_module_name, module_infos)
    /\ Cardinality(Candidates) >= 2

\* C3: in a registry of exactly one module with no resolving override,
\* find_top_module returns that module whatever its instance edges are and
\* raises no top-module error.
C3_SingleModuleIsTop ==
    (TopResolved /\ Len(module_infos) = 1 /\ ~OverrideResolves) =>
        /\ error \notin TopErrors
        /\ top_module = module_infos[1]

\* C3 witness: the only module, which instantiates itself, was returned.
C3_Witness ==
    /\ pc = "process_spy_signals"
    /\ Len(module_infos) = 1
    /\ ~OverrideResolves
    /\ top_module = module_infos[1]
    /\ is_instantiated(module_infos[1].module_name, module_infos)

\* C4: in a registry of two or more modules with no resolving override, an
\* empty set of potential tops ends the run with TopModuleNotFound and more
\* than one potential top ends it with AmbiguousTopModule; the run exits
\* with status 1 and no flattening or conflict-resolution step has run.
C4_TopErrorsAbort ==
    (TopResolved /\ Len(module_infos) >= 2 /\ ~OverrideResolves
        /\ Cardinality(Candidates) # 1) =>
        /\ pc = "exit"
        /\ exit_code = 1
        /\ error = (IF Candidates = {} THEN "TopModuleNotFound"
                    ELSE "AmbiguousTopModule")
        /\ top_module = None
        /\ NothingFlattened

\* C4 witness: a run that stopped on two potential tops.
C4_Witness ==
    /\ pc = "exit"
    /\ Len(module_infos) >= 2
    /\ ~OverrideResolves
    /\ Cardinality(Candidates) = 2
    /\ error = "AmbiguousTopModule"
    /\ exit_code = 1

---------------------------------------------------------------------------
(* C5: cycles *)

\* some module of the registry named `parent` instantiates `child`
Instantiates(parent, child) ==
    \E i \in 1..Len(module_infos) :
        /\ module_infos[i].module_name = parent
        /\ \E k \in 1..Len(module_infos[i].instances) :
              module_infos[i].instances[k][1] = child

\* no module name occurs twice on the active expansion path
NoRevisit ==
    \A i, j \in 1..Len(stack) : i # j => ActivePath[i] # ActivePath[j]

\* C5: when A instantiates B and B instantiates A, flattening from A or from
\* B never expands a module that is already on the active expansion path,
\* ends with the failure CycleDetected, and emits no signal list.
C5_CycleDetected ==
    (/\ Instantiates("A", "B")
     /\ Instantiates("B", "A")
     /\ top_module # None
     /\ top_module.module_name \in {"A", "B"}) =>
        /\ NoRevisit
        /\ pc # "done"
        /\ pc = "exit" => error = "CycleDetected"
        /\ flat = None /\ port_list = None /\ reg_list = None
        /\ spy_signals = <<>>

---------------------------------------------------------------------------
(* C6: the flattened list of an acyclic, well-named registry *)

Names == {module_infos[i].module_name : i \in 1..Len(module_infos)}

Children(name) ==
    LET m == get_module_info(name, module_infos)
    IN {m.instances[k][1] : k \in 1..Len(m.instances)}

RECURSIVE ReachableIn(_, _)
\* the modules reached from the set `from` by at most `steps` instance edges
ReachableIn(from, steps) ==
    IF steps = 0 THEN from
    ELSE ReachableIn(from \cup UNION {Children(n) : n \in from}, steps - 1)

\* no module is reached from one of its own children
Acyclic ==
    \A n \in Names : n \notin ReachableIn(Children(n), Len(module_infos))

\* instance aliases are unique among the instances of one parent
AliasesUnique ==
    \A i \in 1..Len(module_infos) :
        \A k, l \in 1..Len(module_infos[i].instances) :
            k # l => module_infos[i].instances[k][2] # module_infos[i].instances[l][2]

\* declaration names are unique within each register list and each port list
DeclNamesUnique ==
    \A i \in 1..Len(module_infos) : \A fn \in {GET_REGS, GET_PORTS} :
        LET decls == OwnDecls(fn, module_infos[i])
        IN \A k, l \in 1..Len(decls) : k # l => decls[k].name # decls[l].name

RECURSIVE TreeNodes(_, _)
\* the nodes of the instance tree below `module`: <<alias chain, module>>
TreeNodes(module, chain) ==
    {<<chain, module>>} \cup
    UNION {TreeNodes(get_module_info(module.instances[k][1], module_infos),
                     Append(chain, module.instances[k][2])) :
           k \in 1..Len(module.instances)}

RECURSIVE ChainPath(_)
\* the root token followed by '.' and each alias of the chain
ChainPath(chain) ==
    IF chain = <<>> THEN PATH_TOP
    ELSE ChainPath(SubSeq(chain, 1, Len(chain) - 1)) \o <<Dot>> \o chain[Len(chain)]

\* one <<alias chain, module, index>> per declaration of every tree node
TreeDecls(fn) ==
    UNION {{<<node[1], node[2], i>> : i \in 1..Len(OwnDecls(fn, node[2]))} :
           node \in TreeNodes(top_module, <<>>)}

\* the record the claim prescribes for one declaration of one tree node
RecordOf(fn, d) ==
    LET decl == OwnDecls(fn, d[2])[d[3]]
    IN <<decl, ChainPath(d[1]) \o <<Dot>> \o decl.name, d[2].module_name>>

\* the outermost get_all_ports / get_all_registers call has just returned
Flattened == pc \in {GET_PORTS, GET_REGS} /\ stack = <<>> /\ flat # None

\* C6: for an acyclic registry with unique sibling aliases and unique
\* declaration names per module list, the flattened list holds exactly one
\* record per (instance-tree node, local declaration), with the path made of
\* the root token, the alias chain and the local name and with the declaring
\* module as owner, and no two records of the list have the same path.
C6_OneRecordPerOccurrence ==
    (Flattened /\ Acyclic /\ AliasesUnique /\ DeclNamesUnique) =>
        LET list == flat.value
        IN /\ Len(list) = Cardinality(TreeDecls(pc))
           /\ {list[i] : i \in 1..Len(list)} = {RecordOf(pc, d) : d \in TreeDecls(pc)}
           /\ \A i, j \in 1..Len(list) : i # j => list[i][2] # list[j][2]

\* C6 witness: a flattened list with two records of the same local name and
\* a record below a chain of two aliases.
C6_Witness ==
    /\ Flattened /\ Acyclic /\ AliasesUnique /\ DeclNamesUnique
    /\ \E i, j \in 1..Len(flat.value) :
          /\ i # j
          /\ SigName(flat.value[i]) = SigName(flat.value[j])
          /\ flat.value[i][2] # flat.value[j][2]
    /\ \E i \in 1..Len(flat.value) : CountDots(flat.value[i][2]) = 3

---------------------------------------------------------------------------
(* C7, C8, C10: the conflict resolvers *)

\* no two records of the list have the same declaration name
NamesDistinct(signals) ==
    \A i, j \in 1..Len(signals) :
        i # j => SigName(signals[i]) # SigName(signals[j])

\* what the renderer reads of a record: name, type, width, path and owner
Rendered(signals) ==
    [i \in 1..Len(signals) |->
        <<signals[i][1].name, signals[i][1].type, signals[i][1].width,
          signals[i][2], signals[i][3]>>]

\* C7: no two records returned by resolve_conflicts, and no two records
\* returned by resolve_port_conflicts, have the same declaration name
\* (stated for the registries whose sibling aliases and per-module
\* declaration names are unique).
C7_ResolvedNamesUnique ==
    (AliasesUnique /\ DeclNamesUnique) =>
        /\ reg_list # None => NamesDistinct(reg_list.value)
        /\ port_list # None => NamesDistinct(port_list.value)

\* C8: a conflict resolver run on its own output returns that output: the
\* same records, names and paths in the same order (stated for the
\* registries whose sibling aliases and per-module declaration names are
\* unique).
C8_ResolverIdempotent ==
    (AliasesUnique /\ DeclNamesUnique) =>
        /\ reg_list # None =>
              Rendered(resolve_conflicts(reg_list.value)) = Rendered(reg_list.value)
        /\ port_list # None =>
              resolve_port_conflicts(port_list.value) = port_list.value

\* the port list handed to resolve_port_conflicts in a finished "ports" run
PortsIn == flat.value

\* C10: no record returned by resolve_port_conflicts has a path of depth 1:
\* a port of the top module itself is never in the final ports list.
C10_NoTopLevelPort ==
    port_list # None =>
        \A i \in 1..Len(port_list.value) : CountDots(port_list.value[i][2]) > 1

\* C10 witness: the input held an output port of the top module in a group
\* of equally named ports, and the resolver kept other records.
C10_Witness ==
    /\ pc = "done"
    /\ mode = "ports"
    /\ port_list.value # <<>>
    /\ \E i, j \in 1..Len(PortsIn) :
          /\ i # j
          /\ SigName(PortsIn[i]) = SigName(PortsIn[j])
          /\ CountDots(PortsIn[i][2]) = 1
          /\ PortsIn[i][1].direction = "output"
    /\ \A i \in 1..Len(port_list.value) : CountDots(port_list.value[i][2]) > 1

---------------------------------------------------------------------------
(* C9: the order of the module records *)

\* the run has ended, normally or not
Ended == pc \in {"done", "exit"}

\* C9: two runs over the same module records in different list orders, with
\* the same configuration and mode, end alike: the same top module, the same
\* resolved signal list in the same order, the same ports count.
C9_OrderIndependent ==
    (Ended /\ prev_run # None) => Outcome = prev_run

\* C9 witness: the second of two runs over three modules has produced a
\* signal list.
C9_Witness ==
    /\ pc = "done"
    /\ prev_run # None
    /\ Len(module_infos) = 3
    /\ spy_signals # <<>>
    /\ ports_count > 0
    /\ Outcome = prev_run

---------------------------------------------------------------------------
(* C11: the order of the flattened list *)

RECURSIVE DepthFirst(_, _, _)
\* the depth-first pre-order emission below `module`: its own declarations,
\* then the subtree of each instance in stored edge order, nothing sorted
DepthFirst(fn, module, path) ==
    OwnSignals(fn, module, path) \o
    Flatten([k \in 1..Len(module.instances) |->
                DepthFirst(fn,
                           get_module_info(module.instances[k][1], module_infos),
                           path \o <<Dot>> \o module.instances[k][2])])

\* owners never decrease along the list
OwnerOrdered(list) ==
    \A i, j \in 1..Len(list) : i < j => NameLeq(list[i][3], list[j][3])

\* the records of one owner, in list order
OfOwner(list, owner) == SelectSeq(list, LAMBDA sig : sig[3] = owner)

\* C11: the list returned by flattening from the root is the stable sort by
\* owner module of the depth-first pre-order emission: as long as the
\* emission, owners in non-decreasing order, and the records of each owner in
\* their emission order, although every recursion level sorts again.
C11_StableSortOfPreorder ==
    Flattened =>
        LET emitted == DepthFirst(pc, top_module, PATH_TOP)
            list == flat.value
        IN /\ Len(list) = Len(emitted)
           /\ OwnerOrdered(list)
           /\ \A owner \in Names : OfOwner(list, owner) = OfOwner(emitted, owner)

\* C11 witness: the emission was not in owner order, a subtree two aliases
\* deep was sorted before its parent's list was, and the owner of that subtree
\* has several records.
C11_Witness ==
    /\ Flattened
    /\ LET emitted == DepthFirst(pc, top_module, PATH_TOP)
           list == flat.value
       IN /\ ~OwnerOrdered(emitted)
          /\ list # emitted
          /\ OwnerOrdered(list)
          /\ \E i, j \in 1..Len(emitted) :
                /\ i < j
                /\ CountDots(emitted[i][2]) = 2
                /\ CountDots(emitted[j][2]) = 3
                /\ NameRank(emitted[j][3]) < NameRank(emitted[i][3])
          /\ \E i, j \in 1..Len(list) :
                /\ i < j
                /\ list[i][3] = list[j][3]
                /\ CountDots(list[i][2]) = 3

---------------------------------------------------------------------------
(* C12: resolve_conflicts keeps every register *)

\* the register list handed to resolve_conflicts in a finished run
RegsIn == flat.value

\* how often x occurs in the list
Occurrences(list, x) == Cardinality({i \in 1..Len(list) : list[i] = x})

\* the two lists hold the same elements the same number of times
SameBag(a, b) ==
    /\ Len(a) = Len(b)
    /\ \A i \in 1..Len(a) : Occurrences(a, a[i]) = Occurrences(b, a[i])

\* the path without the root token and its '.', every other '.' as '_'
PathName(path) ==
    LET rest == SubSeq(path, Len(PATH_TOP) + 2, Len(path))
    IN [i \in 1..Len(rest) |-> IF rest[i] = Dot THEN "_" ELSE rest[i]]

\* the name of the i-th register occurs once in the list
NameOccursOnce(signals, i) ==
    \A j \in 1..Len(signals) : j # i => SigName(signals[j]) # SigName(signals[i])

\* the name the claim gives the i-th register of the input
ClaimedName(signals, i) ==
    IF NameOccursOnce(signals, i) THEN SigName(signals[i])
    ELSE PathName(signals[i][2])

\* C12: resolve_conflicts never drops a register: the result is as long as
\* the input and holds the same (path, owner) pairs as often; a record whose
\* name occurs once in the input is returned unchanged, and a record whose
\* name occurs more than once is returned under the name made of its own
\* path without the root token, with '_' for every '.'.
C12_RegistersKeptAndRenamed ==
    (pc = "done" /\ reg_list # None) =>
        LET in == RegsIn
            out == reg_list.value
        IN /\ Len(out) = Len(in)
           /\ SameBag([i \in 1..Len(in) |-> <<in[i][2], in[i][3]>>],
                      [i \in 1..Len(out) |-> <<out[i][2], out[i][3]>>])
           /\ SameBag([i \in 1..Len(in) |->
                          <<ClaimedName(in, i), in[i][2], in[i][3]>>],
                      [i \in 1..Len(out) |->
                          <<SigName(out[i]), out[i][2], out[i][3]>>])
           /\ \A i \in 1..Len(in) :
                 NameOccursOnce(in, i) =>
                     Occurrences(out, in[i]) = Occurrences(in, in[i])

\* C12 witness: a module declaring q_s is instantiated as u and as v; the
\* result names the two registers u_q_s and v_q_s, and a register whose name
\* occurs once is in the result as it was.
C12_Witness ==
    /\ pc = "done"
    /\ mode = "registers"
    /\ reg_list # None
    /\ \E i, j \in 1..Len(RegsIn) :
          /\ RegsIn[i][3] = RegsIn[j][3]
          /\ SigName(RegsIn[i]) = q_s /\ SigName(RegsIn[j]) = q_s
          /\ RegsIn[i][2] = PATH_TOP \o <<Dot>> \o u \o <<Dot>> \o q_s
          /\ RegsIn[j][2] = PATH_TOP \o <<Dot>> \o v \o <<Dot>> \o q_s
          /\ \E k, l \in 1..Len(reg_list.value) :
                /\ reg_list.value[k][2] = RegsIn[i][2]
                /\ SigName(reg_list.value[k]) = u \o <<"_">> \o q_s
                /\ reg_list.value[l][2] = RegsIn[j][2]
                /\ SigName(reg_list.value[l]) = v \o <<"_">> \o q_s
    /\ \E i \in 1..Len(RegsIn) :
          /\ NameCount(RegsIn, SigName(RegsIn[i])) = 1
          /\ \E k \in 1..Len(reg_list.value) : reg_list.value[k] = RegsIn[i]

---------------------------------------------------------------------------
(* C13: what resolve_port_conflicts does with each group of ports *)

\* resolve_port_conflicts has returned and its argument is still at hand
PortsResolved ==
    /\ port_list # None
    /\ pc = "ports_resolved" \/ (pc = "done" /\ mode = "ports")

\* the positions of the ports named like the i-th port
GroupOf(signals, i) ==
    {j \in 1..Len(signals) : SigName(signals[j]) = SigName(signals[i])}

\* the group of the i-th port has an output port
HasOutput(signals, i) ==
    \E j \in GroupOf(signals, i) : signals[j][1].direction = "output"

\* the i-th port has a path no longer than any port of its group
MinimalInGroup(signals, i) ==
    \A j \in GroupOf(signals, i) : Len(signals[i][2]) <= Len(signals[j][2])

\* the ways to choose one port of minimal path length from every group
MinimalChoices(signals) ==
    {chosen \in SUBSET (1..Len(signals)) :
        /\ \A i \in chosen : MinimalInGroup(signals, i)
        /\ \A i \in 1..Len(signals) :
              Cardinality(chosen \cap GroupOf(signals, i)) = 1}

\* what the claim lets the i-th port add to the result
ClaimedPorts(signals, i, chosen) ==
    LET port == signals[i]
        deep == CountDots(port[2]) > 1
    IN IF Cardinality(GroupOf(signals, i)) = 1
       THEN IF deep THEN <<port>> ELSE <<>>
       ELSE IF HasOutput(signals, i)
       THEN IF port[1].direction = "output" /\ deep
            THEN <<<<[port[1] EXCEPT !.name = PathName(port[2])], port[2], port[3]>>>>
            ELSE <<>>
       ELSE IF i \in chosen /\ deep THEN <<port>> ELSE <<>>

\* C13: resolve_port_conflicts returns, for each group of equally named
\* ports: of a single port, the port itself iff its depth exceeds 1; of a
\* group with an output port, its output ports of depth > 1 under their
\* path-derived names and nothing else; of a group without an output port,
\* one port of minimal path length, under its own name, iff that port's depth
\* exceeds 1. The result is never longer than the input.
C13_PortGroupPolicy ==
    PortsResolved =>
        LET in == PortsIn
            out == port_list.value
        IN /\ Len(out) <= Len(in)
           /\ \E chosen \in MinimalChoices(in) :
                 SameBag(out, Flatten([i \in 1..Len(in) |->
                                          ClaimedPorts(in, i, chosen)]))

\* C13 witness: one group had two output ports below the top module, both
\* returned under their path-derived names, and another group had two input
\* ports below the top module, one of which is returned under its own name.
C13_Witness ==
    /\ PortsResolved
    /\ LET in == PortsIn
           out == port_list.value
       IN /\ \E i, j \in 1..Len(in) :
                /\ i # j
                /\ j \in GroupOf(in, i)
                /\ in[i][1].direction = "output" /\ in[j][1].direction = "output"
                /\ \E k, l \in 1..Len(out) :
                      /\ out[k][2] = in[i][2] /\ SigName(out[k]) = PathName(in[i][2])
                      /\ out[l][2] = in[j][2] /\ SigName(out[l]) = PathName(in[j][2])
                      /\ SigName(out[k]) # SigName(out[l])
          /\ \E i, j \in 1..Len(in) :
                /\ i # j
                /\ j \in GroupOf(in, i)
                /\ ~HasOutput(in, i)
                /\ Occurrences(out, in[i]) = 1
                /\ Occurrences(out, in[j]) = 0

---------------------------------------------------------------------------
(* C14: an instance of a module that is not in the registry *)

\* the child names on the instance edges of the module `name`, none when
\* the registry has no such module
EdgeTargets(name) ==
    LET m == get_module_info(name, module_infos)
    IN IF m = None THEN {}
       ELSE {m.instances[k][1] : k \in 1..Len(m.instances)}

RECURSIVE NamesWithin(_, _)
\* the names reached from the set `from` by at most `steps` instance edges
NamesWithin(from, steps) ==
    IF steps = 0 THEN from
    ELSE NamesWithin(from \cup UNION {EdgeTargets(n) : n \in from}, steps - 1)

\* an instance edge of a module reachable from the top module names a module
\* that is absent from the registry
MissingChildReachable ==
    /\ top_module # None
    /\ \E n \in NamesWithin({top_module.module_name}, Len(module_infos)) :
          n \notin Names

\* no module reachable from the top module is reached from its own children
NoCycleReachable ==
    /\ top_module # None
    /\ \A n \in NamesWithin({top_module.module_name}, Len(module_infos)) :
          n \notin NamesWithin(EdgeTargets(n), Len(module_infos))

RECURSIVE DepthFirstResolvable(_, _, _)
\* the depth-first emission below `module` that leaves out the subtree of
\* every instance whose module is absent from the registry
DepthFirstResolvable(fn, module, path) ==
    OwnSignals(fn, module, path) \o
    Flatten([k \in 1..Len(module.instances) |->
                LET child == get_module_info(module.instances[k][1], module_infos)
                IN IF child = None THEN <<>>
                   ELSE DepthFirstResolvable(fn, child,
                            path \o <<Dot>> \o module.instances[k][2])])

=============================================================================
